---- MODULE Spec2Model ----
(***************************************************************************)
(* A model of the Huffman tree widget of src/gui/tree_visualizer.py:       *)
(* TreeNode, TreeCanvas._build_tree, the layout (_calculate_tree_width,    *)
(* _get_tree_height, _calculate_positions) and the zoom / pan viewport of  *)
(* TreeCanvas.                                                             *)
(*                                                                         *)
(* Python objects are modelled as a heap: `nodes' is the sequence of the   *)
(* TreeNode objects allocated by the last _build_tree, a reference is the  *)
(* index of the object in it and None is the reference 0.  Python floats   *)
(* are modelled by exact rationals [n, d] in lowest terms: the layout      *)
(* computes dyadic fractions of integers, which a double holds exactly as  *)
(* long as the tree has fewer than about 52 levels, far above the trees    *)
(* the bounds below admit.  The calls that only reach into Qt (update,     *)
(* setMinimumSize, setCursor, event.accept) change no field of the canvas  *)
(* and are left out.  The factor 1.1 of a wheel step is the rational       *)
(* 11 / 10.                                                                *)
(*                                                                         *)
(* The module also models the main window of src/gui/main.py:              *)
(* CompressionWorker.run, a thread that runs beside the main thread and    *)
(* whose calls into the operating system return or raise, the finished     *)
(* signals it emits, queued until the main thread delivers them, and the   *)
(* handlers of HuffmanCompressor.                                          *)
(*                                                                         *)
(* Specifications: Spec (a canvas, any calls), SpecWindow (a tree window   *)
(* of any table), SpecView and SpecDrag (a canvas whose calls are recorded *)
(* in `event' and `pointer'), SpecMain (the main window and its workers).  *)
(***************************************************************************)
EXTENDS Integers, Sequences, FiniteSets

\* ------------------------------------------------------------------ bounds
\* The largest number of entries of the frequency table a tree window is
\* constructed with (SpecWindow), and of the tables loaded into an existing
\* canvas (Spec).
MaxSyms == 4
MaxLoadSyms == 2

\* The counts an entry of a frequency table may carry (negative, zero and
\* positive), and the symbols, in the iteration order of the dict.
FreqValues == {0 - 1, 0, 1, 2, 3}
Chars == <<"A", "B", "C", "D", "E", "F">>

\* ------------------------------------------------------- program constants
NODE_RADIUS == 25
LEVEL_HEIGHT == 80
MIN_NODE_SPACING == 60

\* None, for a reference (an index into nodes) and for TreeNode.char.
NoNode == 0
NoChar == "None"

\* --------------------------------------------------------------- rationals
RECURSIVE GCD(_, _)
GCD(a, b) == IF b = 0 THEN a ELSE GCD(b, a % b)

Abs(i) == IF i < 0 THEN 0 - i ELSE i

\* The rational n / d (d # 0) in lowest terms with a positive denominator.
Rat(n, d) ==
    LET g == GCD(Abs(n), Abs(d))
        s == IF d < 0 THEN 0 - 1 ELSE 1
    IN  [n |-> (s * n) \div g, d |-> (s * d) \div g]

RInt(i) == [n |-> i, d |-> 1]
RAdd(p, q) == Rat(p.n * q.d + q.n * p.d, p.d * q.d)
RSub(p, q) == Rat(p.n * q.d - q.n * p.d, p.d * q.d)
RMul(p, q) == Rat(p.n * q.n, p.d * q.d)
RDiv(p, q) == Rat(p.n * q.d, p.d * q.n)
RLess(p, q) == p.n * q.d < q.n * p.d
RLeq(p, q) == p.n * q.d <= q.n * p.d
RMin(p, q) == IF RLess(q, p) THEN q ELSE p
RMax(p, q) == IF RLess(p, q) THEN q ELSE p

\* ------------------------------------------------------------------- state
VARIABLES
    nodes,           \* the TreeNode objects of the canvas's tree (the heap)
    root,            \* TreeCanvas.root: a reference into nodes, or NoNode
    zoom_level,      \* TreeCanvas.zoom_level
    pan_x,           \* TreeCanvas.pan_x
    pan_y,           \* TreeCanvas.pan_y
    _is_panning,     \* TreeCanvas._is_panning
    _last_mouse_pos, \* TreeCanvas._last_mouse_pos: a position <<x, y>>, or NoPos
    frequency_data,  \* the argument of the last set_tree call
    slot,            \* the (x_start, x_end) of the _calculate_positions call of each node
    fit_box,         \* the locals tree_width, tree_height of the last fit_to_view
    event,           \* the last call a specification observes, with its arguments
    pointer,         \* the position of the last left press or mouse move it observes
    left_down,       \* whether the left button is held, by the events it observes
    selected_file,   \* HuffmanCompressor.selected_file
    compress_btn,    \* HuffmanCompressor.compress_btn: [visible, enabled]
    decompress_btn,  \* HuffmanCompressor.decompress_btn: [visible, enabled]
    view_tree_btn,   \* HuffmanCompressor.view_tree_btn.isVisible()
    last_frequency_data, \* HuffmanCompressor.last_frequency_data
    tree_window,     \* HuffmanCompressor.tree_window is not None
    workers,         \* the CompressionWorker threads started, oldest first
    signals          \* the finished signals emitted and not yet delivered

vars == <<nodes, root, zoom_level, pan_x, pan_y, _is_panning, _last_mouse_pos,
          frequency_data, slot, fit_box, event, pointer, left_down, selected_file,
          compress_btn, decompress_btn, view_tree_btn, last_frequency_data,
          tree_window, workers, signals>>

tree == <<nodes, root, slot, frequency_data>>
view == <<zoom_level, pan_x, pan_y>>
drag == <<_is_panning, _last_mouse_pos>>
canvas == <<tree, view, drag, fit_box>>
observed == <<event, pointer, left_down>>
main == <<selected_file, compress_btn, decompress_btn, view_tree_btn,
          last_frequency_data, tree_window, workers, signals>>

\* ---------------------------------------------------------------- TreeNode
\* TreeNode.__init__: a fresh object, drawn at (0, 0) until it is laid out.
TreeNode(char, freq, left, right) ==
    [char |-> char, freq |-> freq, left |-> left, right |-> right,
     x |-> RInt(0), y |-> 0]

is_leaf(node) == node.left = NoNode /\ node.right = NoNode

\* ------------------------------------------------------- frequency tables
\* A frequency table is a dict: the sequence of its (char, freq) items in
\* iteration order, the chars pairwise distinct.  The absent table is None.
None == [is_none |-> TRUE, items |-> <<>>]
Table(f) == [is_none |-> FALSE, items |-> [i \in 1..Len(f) |-> [char |-> Chars[i], freq |-> f[i]]]]
FreqSeqs(max) == UNION {[1..n -> FreqValues] : n \in 0..max}
FrequencyTables(max) == {Table(f) : f \in FreqSeqs(max)} \cup {None}

\* ------------------------------------------------------------- _build_tree
\* The filter, had it been written `if freq' (a count is truthy unless 0).
KeepEntry_NonZero(freq) == freq # 0

\* The filter of the list comprehension: `if freq > 0'.
KeepEntry(freq) == freq > 0

\* nodes = [TreeNode(char=char, freq=freq) for char, freq in
\*          frequency_data.items() if freq > 0]
LeafNodes(items) ==
    LET kept == SelectSeq(items, LAMBDA it : KeepEntry(it.freq))
    IN  [i \in 1..Len(kept) |-> TreeNode(kept[i].char, kept[i].freq, NoNode, NoNode)]

\* nodes.sort(key=lambda x: x.freq).  list.sort is stable: elements with equal
\* keys keep their order.  Computed as a straight insertion sort, each element
\* going behind every element whose key is not larger.
RECURSIVE InsertByFreq(_, _, _)
InsertByFreq(heap, r, s) ==
    IF s = <<>> THEN <<r>>
    ELSE IF heap[Head(s)].freq <= heap[r].freq
         THEN <<Head(s)>> \o InsertByFreq(heap, r, Tail(s))
         ELSE <<r>> \o s

\* The sort, had it left the list in the order it found it.
sort_Unsorted(heap, s) == s

RECURSIVE sort(_, _)
sort(heap, s) ==
    IF s = <<>> THEN <<>>
    ELSE InsertByFreq(heap, s[Len(s)], sort(heap, SubSeq(s, 1, Len(s) - 1)))

\* The parent, had it taken the freq of its left child alone.
ParentNode_LeftFreqOnly(heap, left, right) ==
    TreeNode(NoChar, heap[left].freq, left, right)

\* The parent, had it been given the same node as both children.
ParentNode_SameChild(heap, left, right) ==
    TreeNode(NoChar, heap[left].freq + heap[right].freq, left, left)

\* parent = TreeNode(freq=left.freq + right.freq, left=left, right=right)
ParentNode(heap, left, right) ==
    TreeNode(NoChar, heap[left].freq + heap[right].freq, left, right)

\* The parent, had it been put in front of the working list (nodes.insert(0, parent)).
AppendParent_AtFront(work, parent) == <<parent>> \o work

\* nodes.append(parent): the new node goes to the end of the working list.
AppendParent(work, parent) == Append(work, parent)

\* The while loop of _build_tree.  heap holds every TreeNode allocated so far,
\* work is the list `nodes' of the code (references into heap).
RECURSIVE MergeLoop(_, _)
MergeLoop(heap, work) ==
    IF Len(work) > 1
    THEN LET sorted == sort(heap, work)
             left   == sorted[1]
             right  == sorted[2]
             rest   == SubSeq(sorted, 3, Len(sorted))
             heap2  == Append(heap, ParentNode(heap, left, right))
         IN  MergeLoop(heap2, AppendParent(rest, Len(heap2)))
    ELSE [nodes |-> heap, root |-> work[1]]

\* TreeCanvas._build_tree: the heap of the nodes it allocates and the
\* reference it returns.
_build_tree(items) ==
    LET heap == LeafNodes(items)
    IN  IF heap = <<>> THEN [nodes |-> <<>>, root |-> NoNode]
        ELSE IF Len(heap) = 1 THEN [nodes |-> heap, root |-> 1]
        ELSE MergeLoop(heap, [i \in 1..Len(heap) |-> i])

\* ------------------------------------------------------------------ layout
\* The width, had every node, not only every leaf, taken MIN_NODE_SPACING.
RECURSIVE _calculate_tree_width_PerNode(_, _)
_calculate_tree_width_PerNode(heap, node) ==
    IF node = NoNode THEN 0
    ELSE IF is_leaf(heap[node]) THEN MIN_NODE_SPACING
    ELSE MIN_NODE_SPACING + _calculate_tree_width_PerNode(heap, heap[node].left)
                          + _calculate_tree_width_PerNode(heap, heap[node].right)

RECURSIVE _calculate_tree_width(_, _)
_calculate_tree_width(heap, node) ==
    IF node = NoNode THEN 0
    ELSE IF is_leaf(heap[node]) THEN MIN_NODE_SPACING
    ELSE _calculate_tree_width(heap, heap[node].left)
         + _calculate_tree_width(heap, heap[node].right)

Max(a, b) == IF a < b THEN b ELSE a

\* The height, had it counted the edges of the longest path instead of its nodes.
RECURSIVE _get_tree_height_Edges(_, _)
_get_tree_height_Edges(heap, node) ==
    IF node = NoNode THEN 0
    ELSE IF is_leaf(heap[node]) THEN 0
    ELSE 1 + Max(_get_tree_height_Edges(heap, heap[node].left),
                 _get_tree_height_Edges(heap, heap[node].right))

RECURSIVE _get_tree_height(_, _)
_get_tree_height(heap, node) ==
    IF node = NoNode THEN 0
    ELSE 1 + Max(_get_tree_height(heap, heap[node].left),
                 _get_tree_height(heap, heap[node].right))

\* The literal 60 of `node.y = level * self.LEVEL_HEIGHT + 60'.
TopMargin == 60

\* The split point, had it been left at x_start.
mid_AtStart(x_start, x_end) == x_start

\* mid = (x_start + x_end) / 2
mid(x_start, x_end) == RDiv(RAdd(x_start, x_end), RInt(2))

\* The x of a node, had it been put at the right end of its interval.
NodeX_AtEnd(x_start, x_end) == x_end

\* The x of a node, had the layout added the current pan to it.
NodeX_PlusPan(x_start, x_end) == RAdd(RDiv(RAdd(x_start, x_end), RInt(2)), pan_x)

\* node.x = (x_start + x_end) / 2
NodeX(x_start, x_end) == RDiv(RAdd(x_start, x_end), RInt(2))

\* node.y = level * self.LEVEL_HEIGHT + 60
NodeY(level) == level * LEVEL_HEIGHT + TopMargin

\* The level of the recursive calls, had it been passed on unchanged.
ChildLevel_Same(level) == level

\* The level passed to the recursive calls: level + 1.
ChildLevel(level) == level + 1

\* TreeCanvas._calculate_positions.  acc.nodes is the heap, whose x and y
\* fields the call writes; acc.slot records the (x_start, x_end) each node was
\* called with.
RECURSIVE _calculate_positions(_, _, _, _, _)
_calculate_positions(acc, node, x_start, x_end, level) ==
    IF node = NoNode THEN acc
    ELSE LET a1 == [nodes |-> [acc.nodes EXCEPT ![node].x = NodeX(x_start, x_end),
                                                ![node].y = NodeY(level)],
                    slot  |-> [acc.slot EXCEPT ![node] = <<x_start, x_end>>]]
             l  == acc.nodes[node].left
             r  == acc.nodes[node].right
             a2 == IF l # NoNode
                   THEN _calculate_positions(a1, l, x_start, mid(x_start, x_end),
                                             ChildLevel(level))
                   ELSE a1
         IN  IF r # NoNode
             THEN _calculate_positions(a2, r, mid(x_start, x_end), x_end,
                                       ChildLevel(level))
             ELSE a2

\* No node has been laid out: every slot is the empty interval at 0.
NoSlots(heap) == [i \in 1..Len(heap) |-> <<RInt(0), RInt(0)>>]

\* ---------------------------------------------------------------- viewport
\* self.min_zoom = 0.3 and self.max_zoom = 3.0 (set once, in __init__).
min_zoom == Rat(3, 10)
max_zoom == RInt(3)

\* The margins fit_to_view adds to the width and to the height of the tree.
FitMarginX == 100
FitMarginY == 120

\* None, for _last_mouse_pos.
NoPos == <<>>

\* The truth value of a QPointF: PyQt's QPointF.__bool__ is `not isNull()',
\* and a point is null when both coordinates are 0.
Truthy(pos) == pos # NoPos /\ pos # <<0, 0>>

\* ----------------------------------------------------------------- actions
\* `not frequency_data': None and the empty dict are falsy.
Falsy(fd) == fd.is_none \/ fd.items = <<>>

\* The early return, had it not reset self.root.
ClearedTree_Kept == [root |-> root, nodes |-> nodes, slot |-> slot]

\* The early return of set_tree: self.root = None.
ClearedTree == [root |-> NoNode, nodes |-> <<>>, slot |-> <<>>]

\* What TreeCanvas.set_tree(frequency_data) leaves in root and in the nodes.
SetTreeResult(fd) ==
    IF Falsy(fd)
    THEN ClearedTree
    ELSE LET built == _build_tree(fd.items)
         IN  IF built.root # NoNode
             THEN LET tree_width == _calculate_tree_width(built.nodes, built.root)
                      laid == _calculate_positions(
                                  [nodes |-> built.nodes, slot |-> NoSlots(built.nodes)],
                                  built.root, RInt(0), RInt(tree_width), 0)
                  IN  [root |-> built.root, nodes |-> laid.nodes, slot |-> laid.slot]
             ELSE [root |-> built.root, nodes |-> built.nodes, slot |-> <<>>]

\* ----------------------------------------------------- the observed calls
\* What a specification records of the calls it makes: the name of the last
\* call, the button of a mouse event, the integers of its arguments (a zoom
\* n / d as <<n, d>>) and, for a mouse move, the pan and _last_mouse_pos
\* before the call, for reset_pan the pan before the call; and the position of the last left press or move.
Call(name, button, arg, before) ==
    [name |-> name, button |-> button, arg |-> arg, before |-> before]
NoEvent == Call("none", "none", <<>>, <<>>)
Unobserved == event = NoEvent /\ pointer = NoPos /\ left_down = FALSE

\* ------------------------------------------------------ the main window
\* None, for HuffmanCompressor.selected_file.
NoFile == "None"

\* A QPushButton: isVisible() and isEnabled().
Button(visible, enabled) == [visible |-> visible, enabled |-> enabled]

\* HuffmanCompressor.__init__: no file, no frequency data, no tree window,
\* the View Tree button hidden (_setup_ui) and, by _update_button_states
\* without a file, both operation buttons visible and disabled.
HuffmanCompressor_init ==
    /\ selected_file = NoFile
    /\ last_frequency_data = None
    /\ tree_window = FALSE
    /\ view_tree_btn = FALSE
    /\ compress_btn = Button(TRUE, FALSE)
    /\ decompress_btn = Button(TRUE, FALSE)
    /\ workers = <<>>
    /\ signals = <<>>

\* TreeCanvas.__init__
Init ==
    /\ nodes = <<>>
    /\ root = NoNode
    /\ zoom_level = RInt(1)
    /\ pan_x = RInt(0)
    /\ pan_y = RInt(0)
    /\ _is_panning = FALSE
    /\ _last_mouse_pos = NoPos
    /\ frequency_data = None
    /\ slot = <<>>
    /\ fit_box = <<0, 0>>
    /\ Unobserved
    /\ HuffmanCompressor_init

\* HuffmanTreeWindow.__init__(frequency_data): a new TreeCanvas, and
\* set_frequency_data(frequency_data) when the table is truthy.
InitWindow ==
    /\ zoom_level = RInt(1)
    /\ pan_x = RInt(0)
    /\ pan_y = RInt(0)
    /\ _is_panning = FALSE
    /\ _last_mouse_pos = NoPos
    /\ fit_box = <<0, 0>>
    /\ Unobserved
    /\ HuffmanCompressor_init
    /\ frequency_data \in FrequencyTables(MaxSyms)
    /\ LET res == IF Falsy(frequency_data)
                  THEN [root |-> NoNode, nodes |-> <<>>, slot |-> <<>>]
                  ELSE SetTreeResult(frequency_data)
       IN  /\ nodes = res.nodes
           /\ root = res.root
           /\ slot = res.slot

\* TreeCanvas.set_tree(frequency_data)
set_tree(fd) ==
    /\ frequency_data' = fd
    /\ LET res == SetTreeResult(fd)
       IN  /\ root' = res.root
           /\ nodes' = res.nodes
           /\ slot' = res.slot
    /\ UNCHANGED <<view, drag, fit_box>>

\* fit_to_view, had it not capped the zoom at 1.0.
fit_to_view_NoCap(viewport_width, viewport_height) ==
    /\ IF root = NoNode
       THEN UNCHANGED <<view, fit_box>>
       ELSE LET tree_width  == _calculate_tree_width(nodes, root) + FitMarginX
                tree_height == _get_tree_height(nodes, root) * LEVEL_HEIGHT + FitMarginY
                zoom_x == Rat(viewport_width, tree_width)
                zoom_y == Rat(viewport_height, tree_height)
            IN  /\ zoom_level' = RMax(RMin(zoom_x, zoom_y), min_zoom)
                /\ pan_x' = RInt(0)
                /\ pan_y' = RInt(0)
                /\ fit_box' = <<tree_width, tree_height>>
    /\ UNCHANGED <<tree, drag>>

\* TreeCanvas.fit_to_view(viewport_width, viewport_height)
fit_to_view(viewport_width, viewport_height) ==
    /\ IF root = NoNode
       THEN UNCHANGED <<view, fit_box>>
       ELSE LET tree_width  == _calculate_tree_width(nodes, root) + FitMarginX
                tree_height == _get_tree_height(nodes, root) * LEVEL_HEIGHT + FitMarginY
                zoom_x == IF tree_width > 0
                          THEN Rat(viewport_width, tree_width) ELSE RInt(1)
                zoom_y == IF tree_height > 0
                          THEN Rat(viewport_height, tree_height) ELSE RInt(1)
                optimal_zoom == RMax(RMin(RMin(zoom_x, zoom_y), RInt(1)), min_zoom)
            IN  /\ zoom_level' = optimal_zoom
                /\ pan_x' = RInt(0)
                /\ pan_y' = RInt(0)
                /\ fit_box' = <<tree_width, tree_height>>
    /\ UNCHANGED <<tree, drag>>

\* set_zoom, had it stored its argument as it is.
set_zoom_Unclamped(zoom) ==
    /\ zoom_level' = zoom
    /\ UNCHANGED <<tree, pan_x, pan_y, drag, fit_box>>

\* TreeCanvas.set_zoom(zoom)
set_zoom(zoom) ==
    /\ zoom_level' = RMax(min_zoom, RMin(max_zoom, zoom))
    /\ UNCHANGED <<tree, pan_x, pan_y, drag, fit_box>>

\* The factor of one wheel step.
WheelFactor == Rat(11, 10)

\* wheelEvent, had it zoomed out on a positive delta and in otherwise.
wheelEvent_Inverted(delta) ==
    IF delta > 0
    THEN set_zoom(RDiv(zoom_level, WheelFactor))
    ELSE set_zoom(RMul(zoom_level, WheelFactor))

\* TreeCanvas.wheelEvent(event): delta is event.angleDelta().y().
wheelEvent(delta) ==
    IF delta > 0
    THEN set_zoom(RMul(zoom_level, WheelFactor))
    ELSE set_zoom(RDiv(zoom_level, WheelFactor))

\* reset_pan, had it reset the zoom as well.
reset_pan_AndZoom ==
    /\ pan_x' = RInt(0)
    /\ pan_y' = RInt(0)
    /\ zoom_level' = RInt(1)
    /\ UNCHANGED <<tree, drag, fit_box>>

\* TreeCanvas.reset_pan()
reset_pan ==
    /\ pan_x' = RInt(0)
    /\ pan_y' = RInt(0)
    /\ UNCHANGED <<tree, zoom_level, drag, fit_box>>

\* TreeCanvas.mousePressEvent(event): button is event.button(), pos is
\* event.position().
mousePressEvent(button, pos) ==
    /\ IF button = "LeftButton"
       THEN /\ _is_panning' = TRUE
            /\ _last_mouse_pos' = pos
       ELSE UNCHANGED drag
    /\ UNCHANGED <<tree, view, fit_box>>

\* TreeCanvas.mouseMoveEvent(event)
mouseMoveEvent(pos) ==
    /\ IF _is_panning /\ Truthy(_last_mouse_pos)
       THEN /\ pan_x' = RAdd(pan_x, RDiv(RInt(pos[1] - _last_mouse_pos[1]), zoom_level))
            /\ pan_y' = RAdd(pan_y, RDiv(RInt(pos[2] - _last_mouse_pos[2]), zoom_level))
            /\ _last_mouse_pos' = pos
            /\ UNCHANGED <<zoom_level, _is_panning>>
       ELSE UNCHANGED <<view, drag>>
    /\ UNCHANGED <<tree, fit_box>>

\* mouseReleaseEvent, had it left the drag state as it was.
mouseReleaseEvent_KeepPanning(button) ==
    /\ UNCHANGED drag
    /\ UNCHANGED <<tree, view, fit_box>>

\* TreeCanvas.mouseReleaseEvent(event)
mouseReleaseEvent(button) ==
    /\ IF button = "LeftButton"
       THEN /\ _is_panning' = FALSE
            /\ _last_mouse_pos' = NoPos
       ELSE UNCHANGED drag
    /\ UNCHANGED <<tree, view, fit_box>>

\* HuffmanTreeWindow._reset_view(): fit_to_view with the size of the scroll
\* area's viewport.
_reset_view(viewport) == fit_to_view(viewport[1], viewport[2])

\* HuffmanTreeWindow.set_frequency_data(frequency_data)
set_frequency_data(fd) == set_tree(fd)

\* ------------------------------------------------------------------ inputs
\* The viewport sizes the scroll area reports to fit_to_view.
ViewportSizes == {<<0, 0>>, <<300, 300>>, <<1000, 700>>}

\* The zoom values requested from set_zoom.
ZoomRequests == {RInt(0), RInt(2)}

\* The pointer positions and buttons of the mouse events.
MousePositions == {<<0, 0>>, <<30, 60>>}
MouseButtons == {"LeftButton", "RightButton"}

\* The pan the model lets a drag reach, in world units.
MaxPan == 30

InPanRange(p) == RLeq(RInt(0 - MaxPan), p) /\ RLeq(p, RInt(MaxPan))

\* The events of the canvas that leave the tree alone.
ViewEvent ==
    \/ \E vp \in ViewportSizes : fit_to_view(vp[1], vp[2])
    \/ \E z \in ZoomRequests : set_zoom(z)
    \/ reset_pan
    \/ \E b \in MouseButtons, pos \in MousePositions : mousePressEvent(b, pos)
    \/ \E pos \in MousePositions :
          mouseMoveEvent(pos) /\ InPanRange(pan_x') /\ InPanRange(pan_y')
    \/ \E b \in MouseButtons : mouseReleaseEvent(b)

\* A canvas whose methods are called in any order, with any table of at most
\* MaxLoadSyms entries.
Next ==
    /\ \/ \E fd \in FrequencyTables(MaxLoadSyms) : set_tree(fd)
       \/ ViewEvent
    /\ UNCHANGED <<observed, main>>

Spec == Init /\ [][Next]_vars

\* A tree window constructed with any table of at most MaxSyms entries, which
\* is then viewed and loaded again with the same table.
NextWindow ==
    /\ \/ set_frequency_data(frequency_data)
       \/ ViewEvent
    /\ UNCHANGED <<observed, main>>

SpecWindow == InitWindow /\ [][NextWindow]_vars

\* ---------------------------------------------------- an observed canvas
\* The tables loaded into the observed canvas: empty, one symbol, three
\* symbols.
ViewTables == {Table(<<>>), Table(<<2>>), Table(<<1, 1, 3>>)}

\* The viewports fit_to_view is called with: zero-sized, narrow, low, large.
FitViewports == {<<0, 0>>, <<150, 300>>, <<200, 150>>, <<1000, 700>>}

\* The arguments of set_zoom: negative, zero, inside the range, above it.
ZoomArgs == {RInt(0 - 1), RInt(0), RInt(2), RInt(5)}

\* The angle deltas of the wheel: one notch down, none, one notch up.
WheelDeltas == {0 - 120, 0, 120}

\* The pointer positions of the observed mouse events.
ViewPositions == {<<10, 20>>, <<30, 60>>}

\* The largest numerator and denominator the model lets a chain of wheel
\* steps give the zoom.
MaxZoomTerm == 150

InZoomRange(z) == z.n <= MaxZoomTerm /\ z.d <= MaxZoomTerm

\* The largest denominator the model lets a drag give the pan.
MaxPanTerm == 1

InViewPan(p) == InPanRange(p) /\ p.d <= MaxPanTerm

Observe(call) == event' = call /\ UNCHANGED <<pointer, left_down>>

\* A canvas whose methods are called in any order, each call observed.
NextView ==
    /\ \/ \E fd \in ViewTables :
             set_tree(fd) /\ Observe(Call("set_tree", "none", <<>>, <<>>))
       \/ \E vp \in FitViewports :
             fit_to_view(vp[1], vp[2]) /\ Observe(Call("fit_to_view", "none", vp, <<>>))
       \/ \E z \in ZoomArgs :
             set_zoom(z) /\ Observe(Call("set_zoom", "none", <<z.n, z.d>>, <<>>))
       \/ \E delta \in WheelDeltas :
             /\ wheelEvent(delta)
             /\ InZoomRange(zoom_level')
             /\ Observe(Call("wheelEvent", "none", <<delta>>, <<>>))
       \/ reset_pan /\ Observe(Call("reset_pan", "none", <<>>, <<pan_x, pan_y>>))
       \/ \E b \in MouseButtons, pos \in ViewPositions :
             /\ mousePressEvent(b, pos)
             /\ event' = Call("mousePressEvent", b, pos, <<>>)
             /\ pointer' = IF b = "LeftButton" THEN pos ELSE pointer
             /\ left_down' = (left_down \/ b = "LeftButton")
       \/ \E pos \in ViewPositions :
             /\ mouseMoveEvent(pos)
             /\ InViewPan(pan_x') /\ InViewPan(pan_y')
             /\ event' = Call("mouseMoveEvent", "none", pos, <<>>)
             /\ pointer' = pos
             /\ UNCHANGED left_down
       \/ \E b \in MouseButtons :
             /\ mouseReleaseEvent(b)
             /\ event' = Call("mouseReleaseEvent", b, <<>>, <<>>)
             /\ left_down' = (left_down /\ b # "LeftButton")
             /\ UNCHANGED pointer
    /\ UNCHANGED main

SpecView == Init /\ [][NextView]_vars

\* ----------------------------------------------------- an observed drag
\* The pointer positions of the observed drags, the widget origin among them.
DragPositions == {<<0, 0>>, <<10, 20>>, <<30, 60>>}

\* The zooms the drags are made at.
DragZooms == {Rat(1, 2), RInt(2)}

\* A canvas showing a tree of three leaves that is dragged, zoomed and
\* recentred, each call observed.
NextDrag ==
    /\ \/ set_tree(Table(<<1, 1, 3>>)) /\ Observe(Call("set_tree", "none", <<>>, <<>>))
       \/ \E z \in DragZooms :
             set_zoom(z) /\ Observe(Call("set_zoom", "none", <<z.n, z.d>>, <<>>))
       \/ reset_pan /\ Observe(Call("reset_pan", "none", <<>>, <<pan_x, pan_y>>))
       \/ \E b \in MouseButtons, pos \in DragPositions :
             /\ mousePressEvent(b, pos)
             /\ event' = Call("mousePressEvent", b, pos, <<>>)
             /\ pointer' = IF b = "LeftButton" THEN pos ELSE pointer
             /\ left_down' = (left_down \/ b = "LeftButton")
       \/ \E pos \in DragPositions :
             /\ mouseMoveEvent(pos)
             /\ InViewPan(pan_x') /\ InViewPan(pan_y')
             /\ event' = Call("mouseMoveEvent", "none", pos, <<pan_x, pan_y, _last_mouse_pos>>)
             /\ pointer' = pos
             /\ UNCHANGED left_down
       \/ \E b \in MouseButtons :
             /\ mouseReleaseEvent(b)
             /\ event' = Call("mouseReleaseEvent", b, <<>>, <<>>)
             /\ left_down' = (left_down /\ b # "LeftButton")
             /\ UNCHANGED pointer
    /\ UNCHANGED main

SpecDrag == Init /\ [][NextDrag]_vars

\* ------------------------------------------------------ CompressionWorker
\* The largest number of operations the model lets the window start.
MaxRuns == 2

\* The bytes of a file: two below 128 and one above.
Bytes == {65, 66, 255}

\* char = chr(byte) if byte < 128 else f"0x{byte:02x}"
CharOf(byte) ==
    IF byte < 128
    THEN (IF byte = 65 THEN "A" ELSE "B")
    ELSE "0xff"

\* The contents the input file may have when the worker reads it.
FileContents == {<<>>, <<65>>, <<66, 255, 66>>}

\* frequency_data[char] = frequency_data.get(char, 0) + 1 for one byte: the
\* count of an entry of the dict goes up, or a new entry goes to the end.
CountByte(items, byte) ==
    IF \E i \in 1..Len(items) : items[i].char = CharOf(byte)
    THEN [i \in 1..Len(items) |->
              IF items[i].char = CharOf(byte)
              THEN [items[i] EXCEPT !.freq = @ + 1]
              ELSE items[i]]
    ELSE Append(items, [char |-> CharOf(byte), freq |-> 1])

RECURSIVE CountBytes(_, _)
CountBytes(items, content) ==
    IF content = <<>> THEN items
    ELSE CountBytes(CountByte(items, Head(content)), Tail(content))

\* CompressionWorker._read_frequency_data(input_file): the counts of the bytes
\* of the file, or the empty dict when the file cannot be opened or read.
_read_frequency_data(readable, content) ==
    [is_none |-> FALSE,
     items |-> IF readable THEN CountBytes(<<>>, content) ELSE <<>>]

\* The dict `stats' of a finished signal: {} or the five entries of run, of
\* which the window reads frequency_data and is_compression.
EmptyStats == [is_empty |-> TRUE, frequency_data |-> None, is_compression |-> FALSE]
Stats(fd, operation) ==
    [is_empty |-> FALSE, frequency_data |-> fd,
     is_compression |-> operation = "compress"]

\* self.finished.emit(success, message, stats) by worker w.
Signal(w, success, message, stats) ==
    [worker |-> w, success |-> success, message |-> message, stats |-> stats]

\* The exit status of a program that has not exited.
NoExit == 0 - 1

\* CompressionWorker.__init__ and start(): run is about to read the size of
\* the input file.  exit is the exit status of the external program (NoExit
\* until it has exited), raised whether run reached its except clause and
\* emitted the signals the worker has emitted.
CompressionWorker(operation, input_file) ==
    [operation |-> operation, input_file |-> input_file, pc |-> "getsize",
     exit |-> NoExit, raised |-> FALSE, emitted |-> <<>>]

\* self.finished.emit(...) as the last statement run executes.
EmitAndReturn(w, exit, raised, sig) ==
    /\ workers' = [workers EXCEPT ![w] = [@ EXCEPT !.pc = "done", !.exit = exit,
                                                   !.raised = raised,
                                                   !.emitted = Append(@, sig)]]
    /\ signals' = Append(signals, sig)

\* The except clause, had it swallowed the exception without emitting.
Except_Silent(w, exit) ==
    /\ workers' = [workers EXCEPT ![w] = [@ EXCEPT !.pc = "done", !.exit = exit,
                                                   !.raised = TRUE]]
    /\ UNCHANGED signals

\* except Exception as e: self.finished.emit(False, str(e), {})
Except(w, exit) ==
    EmitAndReturn(w, exit, TRUE, Signal(w, FALSE, "exception", EmptyStats))

\* The fields of the main window other than its workers and their signals.
window == <<selected_file, compress_btn, decompress_btn, view_tree_btn,
            last_frequency_data, tree_window>>

\* The exit statuses of the external program.
ExitStatuses == {0, 1}

\* run, first step: original_size = os.path.getsize(self.input_file), which
\* returns (ok) or raises.
run_getsize(w, ok) ==
    /\ workers[w].pc = "getsize"
    /\ IF ok
       THEN /\ workers' = [workers EXCEPT ![w].pc = "subprocess"]
            /\ UNCHANGED signals
       ELSE Except(w, NoExit)
    /\ UNCHANGED <<canvas, observed, window>>

\* run, second step: subprocess.run(..., capture_output=True, text=True) and
\* the test of result.returncode.  The call raises when the program cannot be
\* launched and when its output cannot be decoded (captured is false); else
\* it returns the exit status of the program.
run_subprocess(w, launched, exit, captured) ==
    /\ workers[w].pc = "subprocess"
    /\ IF ~launched THEN Except(w, NoExit)
       ELSE IF ~captured THEN Except(w, exit)
       ELSE IF exit = 0
            THEN /\ workers' = [workers EXCEPT ![w] = [@ EXCEPT !.pc = "result",
                                                                !.exit = exit]]
                 /\ UNCHANGED signals
            ELSE EmitAndReturn(w, exit, FALSE, Signal(w, FALSE, "stderr", EmptyStats))
    /\ UNCHANGED <<canvas, observed, window>>

\* run, last step, after returncode == 0: the size of the output file (the
\* call returns, sized, or raises), the frequency data of a compression and
\* the emission of the success.
run_result(w, sized, readable, content) ==
    /\ workers[w].pc = "result"
    /\ IF ~sized THEN Except(w, workers[w].exit)
       ELSE LET operation == workers[w].operation
                fd == IF operation = "compress"
                      THEN _read_frequency_data(readable, content)
                      ELSE Table(<<>>)
            IN  EmitAndReturn(w, workers[w].exit, FALSE,
                              Signal(w, TRUE, "Successfully done", Stats(fd, operation)))
    /\ UNCHANGED <<canvas, observed, window>>

\* ------------------------------------------------------ HuffmanCompressor
\* The paths a drop or the file dialog selects; the empty path is the one of
\* a dropped URL that names no local file.
FilePaths == {"", "a.txt", "a.bin"}

\* The answers of the save dialog: cancelled, or a path.
OutputPaths == {"", "out"}

\* `not file_path': None and the empty string are false.
NoPath(file_path) == file_path = NoFile \/ file_path = ""

\* HuffmanCompressor._detect_file_type(file_path), by the extension.
_detect_file_type(file_path) ==
    IF NoPath(file_path) THEN "None"
    ELSE IF file_path = "a.bin" THEN "decompress"
    ELSE "compress"

\* HuffmanCompressor._update_button_states(), with selected_file = file.
_update_button_states(file) ==
    LET file_type == _detect_file_type(file)
    IN  IF file_type = "compress"
        THEN /\ compress_btn' = Button(TRUE, TRUE)
             /\ decompress_btn' = [decompress_btn EXCEPT !.visible = FALSE]
        ELSE IF file_type = "decompress"
        THEN /\ compress_btn' = [compress_btn EXCEPT !.visible = FALSE]
             /\ decompress_btn' = Button(TRUE, TRUE)
        ELSE /\ compress_btn' = Button(TRUE, FALSE)
             /\ decompress_btn' = Button(TRUE, FALSE)

\* HuffmanCompressor._on_file_dropped(file_path)
_on_file_dropped(file_path) ==
    /\ selected_file' = file_path
    /\ _update_button_states(file_path)
    /\ view_tree_btn' = FALSE
    /\ UNCHANGED <<last_frequency_data, tree_window, workers, signals, canvas, observed>>

\* HuffmanCompressor._run_operation(operation, input_file, output_file)
_run_operation(operation, input_file) ==
    /\ compress_btn' = [compress_btn EXCEPT !.enabled = FALSE]
    /\ decompress_btn' = [decompress_btn EXCEPT !.enabled = FALSE]
    /\ workers' = Append(workers, CompressionWorker(operation, input_file))
    /\ UNCHANGED <<selected_file, view_tree_btn, last_frequency_data, tree_window,
                   signals, canvas, observed>>

\* HuffmanCompressor._compress(), on a click of the Compress button;
\* output_path is the answer of the save dialog.
_compress(output_path) ==
    /\ compress_btn.visible /\ compress_btn.enabled
    /\ IF NoPath(selected_file) THEN UNCHANGED vars
       ELSE IF output_path # "" THEN _run_operation("compress", selected_file)
       ELSE UNCHANGED vars

\* HuffmanCompressor._decompress(), on a click of the Decompress button.
_decompress(output_path) ==
    /\ decompress_btn.visible /\ decompress_btn.enabled
    /\ IF NoPath(selected_file) THEN UNCHANGED vars
       ELSE IF output_path # "" THEN _run_operation("decompress", selected_file)
       ELSE UNCHANGED vars

\* _on_operation_finished, had it shown the View Tree button after every
\* operation.
_on_operation_finished_ShowAlways(success, message, stats) ==
    /\ _update_button_states(selected_file)
    /\ view_tree_btn' = TRUE
    /\ IF success /\ ~stats.is_empty /\ ~Falsy(stats.frequency_data)
       THEN last_frequency_data' = stats.frequency_data
       ELSE UNCHANGED last_frequency_data
    /\ UNCHANGED <<selected_file, tree_window, canvas, observed>>

\* HuffmanCompressor._on_operation_finished(success, message, stats)
_on_operation_finished(success, message, stats) ==
    /\ _update_button_states(selected_file)
    /\ IF success /\ ~stats.is_empty /\ ~Falsy(stats.frequency_data)
       THEN /\ last_frequency_data' = stats.frequency_data
            /\ view_tree_btn' = TRUE
       ELSE UNCHANGED <<last_frequency_data, view_tree_btn>>
    /\ UNCHANGED <<selected_file, tree_window, canvas, observed>>

\* The event loop of the main thread delivers the oldest emitted signal to
\* the slot connected in _run_operation.
Deliver ==
    /\ signals # <<>>
    /\ _on_operation_finished(Head(signals).success, Head(signals).message,
                              Head(signals).stats)
    /\ signals' = Tail(signals)
    /\ UNCHANGED workers

\* HuffmanTreeWindow(frequency_data): the window's canvas after __init__.
HuffmanTreeWindow(fd) ==
    /\ zoom_level' = RInt(1)
    /\ pan_x' = RInt(0)
    /\ pan_y' = RInt(0)
    /\ _is_panning' = FALSE
    /\ _last_mouse_pos' = NoPos
    /\ fit_box' = <<0, 0>>
    /\ frequency_data' = fd
    /\ LET res == IF Falsy(fd)
                  THEN [root |-> NoNode, nodes |-> <<>>, slot |-> <<>>]
                  ELSE SetTreeResult(fd)
       IN  /\ nodes' = res.nodes
           /\ root' = res.root
           /\ slot' = res.slot

\* HuffmanCompressor._show_tree(), on a click of the View Tree button.
_show_tree ==
    /\ view_tree_btn
    /\ IF ~Falsy(last_frequency_data)
       THEN /\ tree_window' = TRUE
            /\ HuffmanTreeWindow(last_frequency_data)
       ELSE UNCHANGED <<tree_window, canvas>>
    /\ UNCHANGED <<selected_file, compress_btn, decompress_btn, view_tree_btn,
                   last_frequency_data, workers, signals, observed>>

\* The answers of the operating system to a worker: whether a call returns
\* or raises.
Answers == BOOLEAN

\* The main window: files are selected, operations started, the workers run
\* beside the main thread, their signals are delivered and the tree is shown.
NextMain ==
    \/ \E file_path \in FilePaths : _on_file_dropped(file_path)
    \/ \E output_path \in OutputPaths :
          Len(workers) < MaxRuns /\ _compress(output_path)
    \/ \E output_path \in OutputPaths :
          Len(workers) < MaxRuns /\ _decompress(output_path)
    \/ \E w \in 1..Len(workers), ok \in Answers : run_getsize(w, ok)
    \/ \E w \in 1..Len(workers), launched \in Answers, exit \in ExitStatuses,
          captured \in Answers : run_subprocess(w, launched, exit, captured)
    \/ \E w \in 1..Len(workers), sized \in Answers, readable \in Answers,
          content \in FileContents : run_result(w, sized, readable, content)
    \/ Deliver
    \/ _show_tree

SpecMain == Init /\ [][NextMain]_vars

\* ------------------------------------------------- reading a tree off the heap
\* The references met by a walk from node n, parent first, with repetition.
RECURSIVE Preorder(_, _)
Preorder(heap, n) ==
    IF n = NoNode THEN <<>>
    ELSE <<n>> \o Preorder(heap, heap[n].left) \o Preorder(heap, heap[n].right)

\* The pairs <<node, depth>> of the walk from n, n itself at depth d.
RECURSIVE NodeDepths(_, _, _)
NodeDepths(heap, n, d) ==
    IF n = NoNode THEN {}
    ELSE {<<n, d>>} \cup NodeDepths(heap, heap[n].left, d + 1)
                    \cup NodeDepths(heap, heap[n].right, d + 1)

TreeNodes == {Preorder(nodes, root)[i] : i \in 1..Len(Preorder(nodes, root))}
Leaves == {n \in TreeNodes : is_leaf(nodes[n])}
Internals == TreeNodes \ Leaves

\* The items of the loaded table, and those with a positive count.
Items == frequency_data.items
Positive == {i \in 1..Len(Items) : Items[i].freq > 0}

RECURSIVE SumFreq(_)
SumFreq(items) == IF items = <<>> THEN 0 ELSE Head(items).freq + SumFreq(Tail(items))

\* ------------------------------------------------------------------ claims
\* C1: for every non-empty frequency table whose counts are all positive, the
\* tree _build_tree returns has a root whose freq is the sum of all the counts
\* of the table.
C1_RootFreqIsSum ==
    (~frequency_data.is_none /\ Items # <<>> /\ \A i \in 1..Len(Items) : Items[i].freq > 0)
        => /\ root # NoNode
           /\ nodes[root].freq = SumFreq(Items)

\* A table of three positive counts has been built into a tree with merges.
C1_Witness ==
    /\ Len(Items) >= 3
    /\ \A i \in 1..Len(Items) : Items[i].freq > 0
    /\ root # NoNode
    /\ ~is_leaf(nodes[root])
    /\ nodes[root].freq = SumFreq(Items)

\* C2: every node of the tree is a leaf (no children, a char, the count of
\* that char in the table) or an internal node (both children, no char, freq =
\* left.freq + right.freq); no node has exactly one child and no node object
\* occurs twice in the tree.
C2_NodeInvariant ==
    /\ \A n \in TreeNodes :
          \/ /\ nodes[n].left = NoNode
             /\ nodes[n].right = NoNode
             /\ nodes[n].char # NoChar
             /\ \E i \in 1..Len(Items) :
                   Items[i].char = nodes[n].char /\ Items[i].freq = nodes[n].freq
          \/ /\ nodes[n].left # NoNode
             /\ nodes[n].right # NoNode
             /\ nodes[n].char = NoChar
             /\ nodes[n].freq = nodes[nodes[n].left].freq + nodes[nodes[n].right].freq
    /\ Cardinality(TreeNodes) = Len(Preorder(nodes, root))

\* A tree with an internal node below the root.
C2_Witness ==
    /\ root # NoNode
    /\ \E n \in Internals : n # root
    /\ Cardinality(Leaves) >= 3

\* C3: the leaves are in one-to-one correspondence with the entries of positive
\* count; entries of zero or negative count produce no leaf; n >= 1 positive
\* entries give n leaves and n - 1 internal nodes; exactly one positive entry
\* gives a single leaf with that symbol and count, at depth 0, without children.
C3_LeavesArePositiveEntries ==
    /\ \A i \in Positive :
          Cardinality({n \in Leaves : nodes[n].char = Items[i].char}) = 1
    /\ \A n \in Leaves :
          \E i \in Positive :
             nodes[n].char = Items[i].char /\ nodes[n].freq = Items[i].freq
    /\ Cardinality(Positive) >= 1 =>
          /\ root # NoNode
          /\ Cardinality(Leaves) = Cardinality(Positive)
          /\ Cardinality(Internals) = Cardinality(Positive) - 1
    /\ Cardinality(Positive) = 1 =>
          /\ Len(nodes) = 1
          /\ root = 1
          /\ is_leaf(nodes[root])
          /\ \E i \in Positive :
                nodes[root].char = Items[i].char /\ nodes[root].freq = Items[i].freq
          /\ NodeDepths(nodes, root, 0) = {<<root, 0>>}

\* A table with entries of zero and of negative count beside two positive ones.
C3_Witness ==
    /\ \E i \in 1..Len(Items) : Items[i].freq = 0
    /\ \E i \in 1..Len(Items) : Items[i].freq < 0
    /\ Cardinality(Positive) = 2
    /\ Cardinality(Leaves) = 2
    /\ Cardinality(Internals) = 1

\* C4: when the table is absent, empty or without an entry of positive count,
\* set_tree leaves root = None, whatever tree was loaded before.
C4_NoPositiveEntryNoTree ==
    (frequency_data.is_none \/ Positive = {}) => root = NoNode

\* fit_to_view has measured a tree (fit_box is only written while a tree is
\* loaded), and a table without a positive entry was loaded after it.
C4_Witness ==
    /\ fit_box # <<0, 0>>
    /\ ~frequency_data.is_none
    /\ Items # <<>>
    /\ Positive = {}
    /\ root = NoNode

\* The shape of the tree below node n: its char, its freq and the shapes of
\* its children (none for a leaf, left then right for an internal node).
RECURSIVE Shape(_, _)
Shape(heap, n) ==
    [char |-> heap[n].char,
     freq |-> heap[n].freq,
     kids |-> IF is_leaf(heap[n]) THEN <<>>
              ELSE <<Shape(heap, heap[n].left), Shape(heap, heap[n].right)>>]

\* The reference list algorithm, on shapes.  A stable sort by ascending freq
\* puts the element at index i behind exactly the elements of smaller freq and
\* the elements of equal freq that stand before it.
RefRank(w, i) ==
    Cardinality({j \in 1..Len(w) :
                    \/ w[j].freq < w[i].freq
                    \/ w[j].freq = w[i].freq /\ j < i})

RefStableSort(w) ==
    [k \in 1..Len(w) |-> w[CHOOSE i \in 1..Len(w) : RefRank(w, i) = k - 1]]

RECURSIVE RefBuild(_)
RefBuild(w) ==
    IF Len(w) <= 1 THEN w
    ELSE LET s == RefStableSort(w)
             a == s[1]
             b == s[2]
             p == [char |-> NoChar, freq |-> a.freq + b.freq, kids |-> <<a, b>>]
         IN  RefBuild(Append(SubSeq(s, 3, Len(s)), p))

RefLeaves(items) ==
    LET kept == SelectSeq(items, LAMBDA it : it.freq > 0)
    IN  [i \in 1..Len(kept) |-> [char |-> kept[i].char, freq |-> kept[i].freq, kids |-> <<>>]]

\* C5: the tree _build_tree returns has the shape the reference list algorithm
\* produces from the table in its iteration order (stable sort by ascending
\* freq, remove the first two nodes a then b, append the node (a, b) of freq
\* a.freq + b.freq at the end, until one node remains); for {A:1, B:1, C:2}
\* the root has freq 4, its left child is the leaf C and its right child the
\* internal node (A, B).
C5_SameShapeAsReference ==
    /\ LET w == RefBuild(RefLeaves(Items))
       IN  IF w = <<>> THEN root = NoNode
           ELSE root # NoNode /\ Shape(nodes, root) = w[1]
    /\ frequency_data = Table(<<1, 1, 2>>) =>
          /\ nodes[root].freq = 4
          /\ Shape(nodes, nodes[root].left) = [char |-> "C", freq |-> 2, kids |-> <<>>]
          /\ Shape(nodes, nodes[root].right) =
                [char |-> NoChar, freq |-> 2,
                 kids |-> <<[char |-> "A", freq |-> 1, kids |-> <<>>],
                            [char |-> "B", freq |-> 1, kids |-> <<>>]>>]

\* The table {A:1, B:1, C:2} has been built: a leaf and an internal node of the
\* same freq met in the second round.
C5_Witness ==
    /\ frequency_data = Table(<<1, 1, 2>>)
    /\ root # NoNode
    /\ is_leaf(nodes[nodes[root].left])
    /\ ~is_leaf(nodes[nodes[root].right])
    /\ nodes[nodes[root].left].freq = nodes[nodes[root].right].freq

\* The width of the slot of node n.
SlotWidth(n) == RSub(slot[n][2], slot[n][1])

\* C6: the interval of an internal node is split between its children in
\* proportion to their subtree widths, the left child taking the left part, so
\* every leaf has a slot of at least MIN_NODE_SPACING.
C6_ProportionalSplit ==
    /\ \A n \in Internals :
          LET wl  == _calculate_tree_width(nodes, nodes[n].left)
              wr  == _calculate_tree_width(nodes, nodes[n].right)
              cut == RAdd(slot[n][1], RMul(SlotWidth(n), Rat(wl, wl + wr)))
          IN  /\ slot[nodes[n].left] = <<slot[n][1], cut>>
              /\ slot[nodes[n].right] = <<cut, slot[n][2]>>
    /\ \A n \in Leaves : RLeq(RInt(MIN_NODE_SPACING), SlotWidth(n))

\* The depth of the deepest node of the tree, the root at depth 0.
MaxDepth ==
    LET ds == {p[2] : p \in NodeDepths(nodes, root, 0)}
    IN  CHOOSE d \in ds : \A e \in ds : e <= d

\* C7: every node at depth d (the root at depth 0) has y = d * LEVEL_HEIGHT +
\* 60, so nodes of one depth share their y and nodes of different depths are at
\* least LEVEL_HEIGHT apart in y.
C7_YIsDepth ==
    /\ \A p \in NodeDepths(nodes, root, 0) : nodes[p[1]].y = p[2] * LEVEL_HEIGHT + 60
    /\ \A p, q \in NodeDepths(nodes, root, 0) :
          IF p[2] = q[2] THEN nodes[p[1]].y = nodes[q[1]].y
          ELSE Abs(nodes[p[1]].y - nodes[q[1]].y) >= LEVEL_HEIGHT

\* An unbalanced tree: a leaf at depth 1 and leaves at depth 3.
C7_Witness ==
    /\ root # NoNode
    /\ \E p, q \in NodeDepths(nodes, root, 0) :
          /\ p[2] = 1 /\ is_leaf(nodes[p[1]])
          /\ q[2] = 3 /\ nodes[q[1]].y = 3 * LEVEL_HEIGHT + 60

C9_LayoutIdempotent ==
    /\ LET again == SetTreeResult(frequency_data)
       IN  /\ again.root = root
           /\ again.nodes = nodes
           /\ _calculate_tree_width(again.nodes, again.root) = _calculate_tree_width(nodes, root)
           /\ _get_tree_height(again.nodes, again.root) = _get_tree_height(nodes, root)
    /\ root # NoNode =>
          _calculate_positions([nodes |-> nodes, slot |-> slot], root, RInt(0),
                               RInt(_calculate_tree_width(nodes, root)), 0).nodes = nodes

\* A tree of at least three leaves on a canvas that has been zoomed and panned.
C9_Witness ==
    /\ Cardinality(Leaves) >= 3
    /\ zoom_level # RInt(1)
    /\ pan_x # RInt(0)
    /\ pan_y # RInt(0)
    /\ SetTreeResult(frequency_data).nodes = nodes

\* C10, as claimed: the bounding box of fit_to_view is (totalWidth + 100,
\* maxDepth * LEVEL_HEIGHT + 120), maxDepth being the depth of the deepest node
\* with the root at depth 0, so a single leaf has a bounding height of 120.
C10_Original ==
    fit_box # <<0, 0>> =>
        /\ fit_box = <<_calculate_tree_width(nodes, root) + 100, MaxDepth * LEVEL_HEIGHT + 120>>
        /\ Cardinality(TreeNodes) = 1 => fit_box[2] = 120

\* C10, amended: the bounding box of fit_to_view is (totalWidth + 100,
\* (maxDepth + 1) * LEVEL_HEIGHT + 120): _get_tree_height counts the levels of
\* the tree, so a single leaf has a bounding height of LEVEL_HEIGHT + 120 = 200.
C10_BoundingBox ==
    fit_box # <<0, 0>> =>
        /\ fit_box = <<_calculate_tree_width(nodes, root) + 100,
                       (MaxDepth + 1) * LEVEL_HEIGHT + 120>>
        /\ Cardinality(TreeNodes) = 1 => fit_box[2] = LEVEL_HEIGHT + 120

\* fit_to_view has measured a single leaf.
C10_Witness ==
    /\ root # NoNode
    /\ is_leaf(nodes[root])
    /\ fit_box = <<160, 200>>

\* ------------------------------------------------------------------- C11
\* The zoom argument of the observed set_zoom call.
ZoomArg == Rat(event.arg[1], event.arg[2])

\* C11: in every reachable state min_zoom <= zoom_level <= max_zoom, whatever
\* sequence of set_zoom, wheel, drag, reset_pan, fit_to_view and set_tree
\* calls led to it; and right after set_zoom(z) zoom_level is z when z lies
\* in [min_zoom, max_zoom], min_zoom when z is below and max_zoom when z is
\* above.
C11_ZoomInRange ==
    /\ RLeq(min_zoom, zoom_level)
    /\ RLeq(zoom_level, max_zoom)
    /\ event.name = "set_zoom" =>
           zoom_level = IF RLess(ZoomArg, min_zoom) THEN min_zoom
                        ELSE IF RLess(max_zoom, ZoomArg) THEN max_zoom
                        ELSE ZoomArg

\* set_zoom was called with a zoom above the range, on a canvas that shows a
\* tree and was dragged.
C11_Witness ==
    /\ event.name = "set_zoom"
    /\ RLess(max_zoom, ZoomArg)
    /\ zoom_level = max_zoom
    /\ root # NoNode
    /\ pan_x # RInt(0)

\* ------------------------------------------------------------------- C12
\* paintEvent: painter.scale(zoom_level, zoom_level), then
\* painter.translate(pan_x, pan_y): the world point w is drawn at
\* zoom * (w + pan).
Screen(zoom, pan, w) == RMul(zoom, RAdd(w, pan))

\* C12: during a left-button drag, whatever the position of the press (the
\* widget origin (0, 0) included), a mouse move that displaces the pointer by
\* (dx, dy) since the previous press or move adds (dx / zoom_level,
\* dy / zoom_level) to the pan and leaves zoom_level alone, so that every
\* node moves on the screen by exactly (dx, dy).
C12_DragMovesTree ==
    [][ (_is_panning /\ event'.name = "mouseMoveEvent") =>
            LET dx == pointer'[1] - pointer[1]
                dy == pointer'[2] - pointer[2]
            IN  /\ zoom_level' = zoom_level
                /\ pan_x' = RAdd(pan_x, RDiv(RInt(dx), zoom_level))
                /\ pan_y' = RAdd(pan_y, RDiv(RInt(dy), zoom_level))
                /\ \A n \in TreeNodes :
                       /\ RSub(Screen(zoom_level', pan_x', nodes[n].x),
                               Screen(zoom_level, pan_x, nodes[n].x)) = RInt(dx)
                       /\ RSub(Screen(zoom_level', pan_y', RInt(nodes[n].y)),
                               Screen(zoom_level, pan_y, RInt(nodes[n].y))) = RInt(dy)
      ]_vars

\* ------------------------------------------------------------------- C13
\* The pan coordinate mouseMoveEvent leaves during a drag, from the pan
\* coordinate `pan', the coordinate `last' of _last_mouse_pos (truthy or not)
\* and the coordinate `pos' of the position of the event.
PanAfterMove(pan, truthy, last, pos, zoom) ==
    IF truthy THEN RAdd(pan, RDiv(RInt(pos - last), zoom)) ELSE pan

\* C13: at a constant zoom panning is additive: two successive mouse moves of
\* one drag, with displacements (a, b) then (c, d), leave the pan that a
\* single move with the displacement (a + c, b + d), i.e. a single move to
\* the final position, leaves from the same starting state.
C13_PanAdditive ==
    [][ (/\ _is_panning
         /\ event.name = "mouseMoveEvent"
         /\ event'.name = "mouseMoveEvent") =>
            LET pan_x0 == event.before[1]
                pan_y0 == event.before[2]
                last0  == event.before[3]
                to     == event'.arg
            IN  /\ pan_x' = PanAfterMove(pan_x0, Truthy(last0), last0[1], to[1], zoom_level)
                /\ pan_y' = PanAfterMove(pan_y0, Truthy(last0), last0[2], to[2], zoom_level)
      ]_vars

\* ------------------------------------------------------------------- C14
\* C14: from any state reset_pan sets the pan to (0, 0) and leaves zoom_level,
\* the tree and the coordinates of its nodes as they were.
C14_ResetPan ==
    [][ event'.name = "reset_pan" =>
            /\ pan_x' = RInt(0)
            /\ pan_y' = RInt(0)
            /\ zoom_level' = zoom_level
            /\ root' = root
            /\ nodes' = nodes
      ]_vars

\* reset_pan was called on a canvas that shows a tree, is zoomed in and was
\* dragged away from (0, 0).
C14_Witness ==
    /\ event.name = "reset_pan"
    /\ event.before[1] # RInt(0)
    /\ event.before[2] # RInt(0)
    /\ pan_x = RInt(0)
    /\ pan_y = RInt(0)
    /\ zoom_level = RInt(2)
    /\ root # NoNode

\* ------------------------------------------------------------------- C15
\* The bounding box fit_to_view fits: the width and the height of the laid
\* out tree with the margins.
BoxWidth == _calculate_tree_width(nodes, root) + FitMarginX
BoxHeight == _get_tree_height(nodes, root) * LEVEL_HEIGHT + FitMarginY

\* The viewport of the observed fit_to_view call.
FitViewport == event.arg

\* C15: for a loaded tree and any viewport, a zero-sized one included,
\* fit_to_view divides by no zero (both sides of the box are positive), sets
\* zoom_level to max(min(vw / bw, vh / bh, 1.0), min_zoom) and the pan to
\* (0, 0); the zoom it leaves never exceeds 1.0.
C15_FitToView ==
    (event.name = "fit_to_view" /\ root # NoNode) =>
        /\ BoxWidth > 0
        /\ BoxHeight > 0
        /\ LET zx == Rat(FitViewport[1], BoxWidth)
               zy == Rat(FitViewport[2], BoxHeight)
               least == IF RLeq(zx, zy) /\ RLeq(zx, RInt(1)) THEN zx
                        ELSE IF RLeq(zy, RInt(1)) THEN zy
                        ELSE RInt(1)
           IN  zoom_level = IF RLess(least, min_zoom) THEN min_zoom ELSE least
        /\ RLeq(zoom_level, RInt(1))
        /\ pan_x = RInt(0)
        /\ pan_y = RInt(0)

\* fit_to_view was called with a zero-sized viewport on a canvas that shows a
\* tree of several nodes.
C15_Witness ==
    /\ event.name = "fit_to_view"
    /\ FitViewport = <<0, 0>>
    /\ Cardinality(TreeNodes) > 1
    /\ zoom_level = min_zoom
    /\ pan_x = RInt(0)

\* ------------------------------------------------------------------- C16
\* C16: fit_to_view on a canvas without a tree (none loaded, or an empty one),
\* whose bounding box is degenerate, leaves zoom_level = 1.0 and the pan
\* (0, 0), whatever they were before the call.
C16_FitWithoutTree ==
    (event.name = "fit_to_view" /\ root = NoNode) =>
        /\ zoom_level = RInt(1)
        /\ pan_x = RInt(0)
        /\ pan_y = RInt(0)

\* ------------------------------------------------------------------- C17
\* C17: loading a frequency table into an existing canvas resets the
\* viewport: when set_tree (set_frequency_data) returns, zoom_level = 1.0 and
\* the pan is (0, 0), whatever wheel, drag and set_zoom calls came before.
C17_SetTreeResetsView ==
    event.name = "set_tree" =>
        /\ zoom_level = RInt(1)
        /\ pan_x = RInt(0)
        /\ pan_y = RInt(0)

\* ------------------------------------------------------------------- C18
\* C18: fit to view makes the whole tree visible: for a non-empty tree and a
\* viewport (vw, vh) with min(vw / BoxWidth, vh / BoxHeight) >= min_zoom,
\* after fit_to_view(vw, vh) the circle of every node, of centre (x, y) and
\* radius NODE_RADIUS, drawn at zoom * (world + pan), lies inside
\* [0, vw] x [0, vh].
C18_FitShowsWholeTree ==
    (/\ event.name = "fit_to_view"
     /\ root # NoNode
     /\ RLeq(min_zoom, Rat(FitViewport[1], BoxWidth))
     /\ RLeq(min_zoom, Rat(FitViewport[2], BoxHeight))) =>
        \A n \in TreeNodes :
            LET x == nodes[n].x
                y == RInt(nodes[n].y)
                r == RInt(NODE_RADIUS)
            IN  /\ RLeq(RInt(0), Screen(zoom_level, pan_x, RSub(x, r)))
                /\ RLeq(Screen(zoom_level, pan_x, RAdd(x, r)), RInt(FitViewport[1]))
                /\ RLeq(RInt(0), Screen(zoom_level, pan_y, RSub(y, r)))
                /\ RLeq(Screen(zoom_level, pan_y, RAdd(y, r)), RInt(FitViewport[2]))

\* ------------------------------------------------------------------- C19
\* The table fd is the frequency data of the success signal of a worker that
\* ran 'compress' and whose program exited with status 0.
SuppliedBySuccess(fd) ==
    \E w \in 1..Len(workers) :
        /\ workers[w].operation = "compress"
        /\ workers[w].exit = 0
        /\ ~workers[w].raised
        /\ workers[w].emitted # <<>>
        /\ workers[w].emitted[1].success
        /\ workers[w].emitted[1].stats.frequency_data = fd

\* C19: a failed run never supplies a frequency table.  When the signal of a
\* failed run is delivered, _on_operation_finished leaves last_frequency_data
\* unchanged and does not make the View Tree button visible; whenever
\* last_frequency_data changes, it becomes the frequency data of the
\* delivered success signal of a 'compress' worker (never of 'decompress');
\* and the table the tree window is built from is such data.
C19_FailedRunSuppliesNothing ==
    [][ /\ (signals # <<>> /\ signals' = Tail(signals) /\ ~Head(signals).success) =>
              /\ last_frequency_data' = last_frequency_data
              /\ view_tree_btn' => view_tree_btn
        /\ last_frequency_data' # last_frequency_data =>
              /\ signals # <<>>
              /\ signals' = Tail(signals)
              /\ Head(signals).success
              /\ workers[Head(signals).worker].operation = "compress"
              /\ last_frequency_data' = Head(signals).stats.frequency_data
              /\ SuppliedBySuccess(last_frequency_data')
        /\ (tree_window' /\ ~tree_window) => SuppliedBySuccess(frequency_data')
        /\ frequency_data' # frequency_data => SuppliedBySuccess(frequency_data')
      ]_vars

\* A compression supplied a table, and the failure of a later operation has
\* been delivered: the table is still that of the first, and the button is
\* still visible.
C19_Witness ==
    /\ Len(workers) = 2
    /\ signals = <<>>
    /\ workers[1].pc = "done" /\ workers[1].emitted[1].success
    /\ workers[2].pc = "done" /\ ~workers[2].emitted[1].success
    /\ ~Falsy(last_frequency_data)
    /\ last_frequency_data = workers[1].emitted[1].stats.frequency_data
    /\ view_tree_btn
    /\ tree_window

\* ------------------------------------------------------------------- C20
\* The signal is a success carrying the stats of run, or a failure carrying
\* the empty dict.
IsSuccess(sig) == sig.success /\ ~sig.stats.is_empty /\ ~sig.stats.frequency_data.is_none
IsFailure(sig) == ~sig.success /\ sig.stats = EmptyStats

\* C20 as stated: every execution of run emits its signal exactly once: a
\* success with the stats whenever the external program exited with status
\* 0, a failure with empty stats when it exited with another status or never
\* ran (the size of the input could not be read, the launch raised); nothing
\* is emitted before run ends.
C20_Original ==
    \A w \in 1..Len(workers) :
        IF workers[w].pc = "done"
        THEN /\ Len(workers[w].emitted) = 1
             /\ IF workers[w].exit = 0
                THEN IsSuccess(workers[w].emitted[1])
                ELSE IsFailure(workers[w].emitted[1])
        ELSE workers[w].emitted = <<>>

\* C20, amended: every execution of run emits its signal exactly once: a
\* success with the stats when the external program exited with status 0 and
\* no call of run raised, a failure with empty stats when the program exited
\* with another status or any call inside run raised (before the launch,
\* while capturing the output, or reading the size of the output after a
\* status 0); nothing is emitted before run ends.
C20_ExactlyOneSignal ==
    \A w \in 1..Len(workers) :
        IF workers[w].pc = "done"
        THEN /\ Len(workers[w].emitted) = 1
             /\ IF workers[w].exit = 0 /\ ~workers[w].raised
                THEN IsSuccess(workers[w].emitted[1])
                ELSE IsFailure(workers[w].emitted[1])
        ELSE workers[w].emitted = <<>>

\* One run has ended in a success, and one whose program exited with status
\* 0 has ended in a failure, each with one signal.
C20_Witness ==
    /\ Len(workers) = 2
    /\ workers[1].pc = "done" /\ workers[1].exit = 0 /\ ~workers[1].raised
    /\ IsSuccess(workers[1].emitted[1])
    /\ workers[2].pc = "done" /\ workers[2].exit = 0 /\ workers[2].raised
    /\ IsFailure(workers[2].emitted[1])

\* ------------------------------------------------------------------- C21
\* The nodes of the subtree of n, and its leaves.
Subtree(n) == {Preorder(nodes, n)[i] : i \in 1..Len(Preorder(nodes, n))}
SubtreeLeaves(n) == {m \in Subtree(n) : is_leaf(nodes[m])}

\* C21: _calculate_tree_width returns 0 for the absent tree,
\* MIN_NODE_SPACING for a leaf and the sum of the widths of the two children
\* for an internal node; the width of every subtree, and so of the whole
\* tree, is MIN_NODE_SPACING times the number of its leaves, and the leaves
\* of the tree are as many as the entries of the table with a positive count.
C21_WidthIsLeafCount ==
    /\ _calculate_tree_width(nodes, NoNode) = 0
    /\ \A n \in Leaves : _calculate_tree_width(nodes, n) = MIN_NODE_SPACING
    /\ \A n \in Internals :
           _calculate_tree_width(nodes, n) =
               MIN_NODE_SPACING * Cardinality(SubtreeLeaves(nodes[n].left))
               + MIN_NODE_SPACING * Cardinality(SubtreeLeaves(nodes[n].right))
    /\ _calculate_tree_width(nodes, root) = MIN_NODE_SPACING * Cardinality(Leaves)
    /\ Cardinality(Leaves) = Cardinality(Positive)

\* A tree of four leaves and three internal nodes, 240 wide.
C21_Witness ==
    /\ Cardinality(Leaves) = 4
    /\ Cardinality(Internals) = 3
    /\ _calculate_tree_width(nodes, root) = 240

\* ------------------------------------------------------------------- C22
\* The width of the whole tree, as a rational.
TotalWidth == RInt(_calculate_tree_width(nodes, root))

Clamp(z) ==
    IF RLess(z, min_zoom) THEN min_zoom
    ELSE IF RLess(max_zoom, z) THEN max_zoom
    ELSE z

\* C23: a wheel event changes only the zoom: with a positive vertical delta
\* it stores Clamp(zoom_level * 1.1), with a negative one
\* Clamp(zoom_level / 1.1); the pan, the tree and the coordinates of its
\* nodes are left unchanged by wheelEvent and by set_zoom.
C23_WheelZoomsOnly ==
    [][ /\ (event'.name = "wheelEvent" /\ event'.arg[1] > 0) =>
               zoom_level' = Clamp(RMul(zoom_level, Rat(11, 10)))
        /\ (event'.name = "wheelEvent" /\ event'.arg[1] < 0) =>
               zoom_level' = Clamp(RDiv(zoom_level, Rat(11, 10)))
        /\ event'.name \in {"wheelEvent", "set_zoom"} =>
               /\ pan_x' = pan_x
               /\ pan_y' = pan_y
               /\ root' = root
               /\ nodes' = nodes
      ]_vars

\* The wheel was turned up on a canvas at zoom 2.0 that shows a tree and was
\* dragged: the zoom is 2.2.
C23_Witness ==
    /\ event.name = "wheelEvent"
    /\ event.arg[1] > 0
    /\ zoom_level = Rat(11, 5)
    /\ pan_x # RInt(0)
    /\ root # NoNode

\* ------------------------------------------------------------------- C24
\* C24: a wheel event without vertical scroll (angleDelta().y() = 0) leaves
\* zoom_level, pan_x and pan_y unchanged.
C24_NoScrollNoZoom ==
    [][ (event'.name = "wheelEvent" /\ event'.arg[1] = 0) =>
            /\ zoom_level' = zoom_level
            /\ pan_x' = pan_x
            /\ pan_y' = pan_y
      ]_vars

\* ------------------------------------------------------------------- C25
\* C25: the canvas pans only between a press of the left button and its next
\* release: a mouse move received while the left button is not held (before
\* any press, after the release, after a press or release of another button)
\* changes neither the pan nor zoom_level; and when mouseReleaseEvent of the
\* left button returns, _is_panning is False and _last_mouse_pos is None,
\* whatever press, move, release, wheel and reset events came before.
C25_PansOnlyWhileDragging ==
    [][ /\ (event'.name = "mouseMoveEvent" /\ ~left_down) =>
               /\ pan_x' = pan_x
               /\ pan_y' = pan_y
               /\ zoom_level' = zoom_level
        /\ (event'.name = "mouseReleaseEvent" /\ event'.button = "LeftButton") =>
               /\ _is_panning' = FALSE
               /\ _last_mouse_pos' = NoPos
        /\ (pan_x' # pan_x \/ pan_y' # pan_y) =>
               \/ event'.name = "mouseMoveEvent" /\ left_down
               \/ event'.name \in {"reset_pan", "fit_to_view"}
      ]_vars

\* A mouse move arrived after a drag had moved the pan and the left button
\* had been released: the pan is still the one the drag left.
C25_Witness ==
    /\ event.name = "mouseMoveEvent"
    /\ ~left_down
    /\ ~_is_panning
    /\ _last_mouse_pos = NoPos
    /\ pan_x # RInt(0)
    /\ pointer # NoPos

\* ------------------------------------------------------------------- C26
\* The sum of the counts of the entries S of the table.
RECURSIVE Weight(_)
Weight(S) ==
    IF S = {} THEN 0
    ELSE LET i == CHOOSE j \in S : TRUE
         IN  Items[i].freq + Weight(S \ {i})

\* The least element of a non-empty set of numbers.
Least(T) == CHOOSE m \in T : \A t \in T : m <= t

\* The least weighted path length of a full binary tree whose leaves are the
\* entries S: a tree of several leaves splits them between its two subtrees,
\* and each leaf is one level deeper in the tree than in its subtree.
RECURSIVE MinPathLength(_)
MinPathLength(S) ==
    IF Cardinality(S) <= 1 THEN 0
    ELSE Weight(S)
         + Least({MinPathLength(A) + MinPathLength(S \ A) : A \in (SUBSET S) \ {{}, S}})

\* The sum of freq * depth over the leaves among the pairs <<node, depth>>.
RECURSIVE PathLength(_)
PathLength(pairs) ==
    IF pairs = {} THEN 0
    ELSE LET p == CHOOSE q \in pairs : TRUE
         IN  (IF is_leaf(nodes[p[1]]) THEN nodes[p[1]].freq * p[2] ELSE 0)
             + PathLength(pairs \ {p})

\* The weighted path length of the tree of the canvas.
WeightedPathLength == PathLength(NodeDepths(nodes, root, 0))

\* C26: the tree built by _build_tree is an optimal code tree: for every
\* table with at least two positive entries, the sum over its leaves of
\* freq * depth is the least that a full binary tree with those entries as
\* leaves can have.
C26_OptimalTree ==
    Cardinality(Positive) >= 2 =>
        WeightedPathLength = MinPathLength(Positive)

\* A tree built from four positive counts, on four levels.
C26_Witness ==
    /\ Cardinality(Positive) = 4
    /\ MaxDepth = 3
    /\ WeightedPathLength = MinPathLength(Positive)

\* ------------------------------------------------------------------- C27
\* Worker w is in flight: started by _run_operation, and its signal not yet
\* handled by _on_operation_finished.
InFlight(w) ==
    \/ workers[w].pc # "done"
    \/ \E i \in 1..Len(signals) : signals[i].worker = w

\* C27: at most one CompressionWorker is in flight at a time: from the start
\* of a worker until its signal has been handled, the Compress and the
\* Decompress button stay disabled, whatever files are dropped and buttons
\* clicked meanwhile, so that no second worker is started beside it.
C27_OneWorkerInFlight ==
    /\ Cardinality({w \in 1..Len(workers) : InFlight(w)}) <= 1
    /\ (\E w \in 1..Len(workers) : InFlight(w)) =>
           /\ ~compress_btn.enabled
           /\ ~decompress_btn.enabled

====
